---------------------------- MODULE Spec2Model ----------------------------
(***************************************************************************)
(* Model of src/download.rs: the Downloader of spotify-dl.                 *)
(*                                                                         *)
(* download_tracks drives one download_track future per track of the batch *)
(* through buffer_unordered(parallel) and try_collect.  All track futures  *)
(* are polled by the one task that awaits download_tracks, so the code     *)
(* between two await points of download_track is one atomic step; the      *)
(* steps of different tracks interleave at the await points (metadata      *)
(* fetch, cover fetch, channel receive, encode, file write).               *)
(*                                                                         *)
(* Strings are sequences of one-character strings; a path is a string.     *)
(***************************************************************************)
EXTENDS Integers, Sequences, FiniteSets, TLC

VARIABLES
    options,    \* DownloadOptions: destination, parallel, format, folder_structure
    tracks,     \* the batch handed to download_tracks: a sequence of track ids
    sink,       \* what the producer of a track may do: [events, cap, early_close]
    links,      \* the .index directory: track id -> target of its symlink (NoLink: none)
    files,      \* the paths that exist as files under the destination
    pc,         \* per track of the batch: where its download_track future stands
    err,        \* per track: the error its future returned ("none": none)
    trace,      \* per track: the external operations its future has performed, in order
    file_name,  \* per track: the local file_name (line 136)
    path,       \* per track: the local path (lines 137-143)
    chan,       \* per track: the SinkEvents sent and not yet received
    closed,     \* per track: the sending half of the channel was dropped
    recvd,      \* per track: what sink_channel.recv() has returned so far, in order
    samples,    \* per track: the local samples (line 165)
    result,     \* what download_tracks returned ("Running": it has not returned)
    namer       \* the build's platform, and one call of a naming function with its result

vars == <<options, tracks, sink, links, files, pc, err, trace, file_name, path,
          chan, closed, recvd, samples, result, namer>>

---------------------------------------------------------------------------
(* Bounds of the model. *)

\* Tracks in a batch of the orchestrator specification.
NTracks == 3
\* options.parallel ranges over 1..MaxParallel.
MaxParallel == 2
\* SinkEvents sent on one track's channel in the single-track specification.
MaxMsgs == 4
\* Artists of a track in the naming specification.
MaxArtists == 4
\* album.num_discs ranges over 0..MaxDiscs in the naming specification.
MaxDiscs == 2
\* Length of the strings handed to clean_file_name in the naming specification.
MaxStrLen == 3

---------------------------------------------------------------------------
(* Strings and numbers. *)

RECURSIVE Digits(_)
\* Display of an unsigned integer ("{}"): its decimal digits.
Digits(n) ==
    LET d == <<"0", "1", "2", "3", "4", "5", "6", "7", "8", "9">>
    IN  IF n < 10 THEN <<d[n + 1]>> ELSE Digits(n \div 10) \o <<d[(n % 10) + 1]>>

\* "{:0>2}": right-aligned in a field of width 2, filled with '0'.
Pad2(n) == IF Len(Digits(n)) < 2 THEN <<"0">> \o Digits(n) ELSE Digits(n)

RECURSIVE Join(_, _)
\* [String]::join(sep)
Join(parts, sep) ==
    IF parts = <<>> THEN <<>>
    ELSE IF Len(parts) = 1 THEN parts[1]
    ELSE parts[1] \o sep \o Join(Tail(parts), sep)

\* Iterator::take(n)
Take(s, n) == SubSeq(s, 1, IF Len(s) < n THEN Len(s) ELSE n)

\* The index of the last occurrence of character c in s, 0 if there is none.
LastIndexOf(s, c) ==
    LET hits == {k \in 1..Len(s) : s[k] = c}
    IN  IF hits = {} THEN 0 ELSE CHOOSE k \in hits : \A h \in hits : h <= k


---------------------------------------------------------------------------
(* Path naming: get_file_name, clean_file_name and the output path. *)

FLAT == "FLAT"
ALBUM == "ALBUM"
FolderStructure == {FLAT, ALBUM}

\* The characters of the model's strings.  "TAB" stands for a control
\* character and "E_ACUTE" for a character outside ASCII.
ControlChars == {"TAB"}
NonAsciiChars == {"E_ACUTE"}

\* cfg!(windows): the platform the program was built for.
cfg_windows == namer.windows

\* The literal "and others".
AndOthers == <<"a", "n", "d", " ", "o", "t", "h", "e", "r", "s">>

\* The test for control characters forgotten.
clean_file_name_keeps_control(name) ==
    LET invalid_chars == {"<", ">", ":", "'", "\"", "/", "\\", "|", "?", "*"}
        allows_non_ascii == ~cfg_windows
        keep(c) == /\ c \notin invalid_chars
                   /\ (c \notin NonAsciiChars \/ allows_non_ascii)
    IN  SelectSeq(name, keep)

\* clean_file_name: keeps, in order, the characters that are not in
\* invalid_chars, are ASCII (or the platform allows others) and are not
\* control characters.
clean_file_name(name) ==
    LET invalid_chars == {"<", ">", ":", "'", "\"", "/", "\\", "|", "?", "*"}
        allows_non_ascii == ~cfg_windows
        keep(c) == /\ c \notin invalid_chars
                   /\ (c \notin NonAsciiChars \/ allows_non_ascii)
                   /\ c \notin ControlChars
    IN  SelectSeq(name, keep)

\* "and others" already for 3 artists.
artists_name_from_three(metadata) ==
    IF Len(metadata.artists) >= 3
    THEN Join(Take(metadata.artists, 3) \o <<AndOthers>>, <<",", " ">>)
    ELSE Join(metadata.artists, <<",", " ">>)

\* The artists part of the FLAT name: more than 3 artists give the first 3
\* and "and others".
artists_name(metadata) ==
    IF Len(metadata.artists) > 3
    THEN Join(Take(metadata.artists, 3) \o <<AndOthers>>, <<",", " ">>)
    ELSE Join(metadata.artists, <<",", " ">>)

\* The first artist, or the empty string.
album_artist(metadata) == Join(Take(metadata.artists, 1), <<",", " ">>)

\* The album segment of the ALBUM structure, before sanitization.
album_part(metadata) ==
    IF metadata.album.num_discs = 1
    THEN metadata.album.name
    ELSE metadata.album.name \o <<" ", "(", "D", "i", "s", "c", " ">>
            \o Digits(metadata.disc_number) \o <<")">>

\* The segments of the relative path, before sanitization.
name_parts(metadata, structure) ==
    IF structure = FLAT
    THEN << artists_name(metadata) \o <<" ", "-", " ">> \o metadata.track_name >>
    ELSE << album_artist(metadata),
            album_part(metadata),
            Pad2(metadata.number) \o <<" ">> \o metadata.track_name >>

\* get_file_name: every segment sanitized, the segments joined by "/".
get_file_name(metadata, structure) ==
    LET parts == name_parts(metadata, structure)
    IN  Join([k \in 1..Len(parts) |-> clean_file_name(parts[k])], <<"/">>)

\* Path::join: an absolute argument replaces the base; otherwise the argument
\* is appended after a separator (unless the base already ends with one).
PathJoin(base, rel) ==
    IF rel # <<>> /\ rel[1] = "/" THEN rel
    ELSE IF base = <<>> \/ base[Len(base)] = "/" THEN base \o rel
    ELSE base \o <<"/">> \o rel

\* Path::with_extension: the extension of the last component (what follows
\* its last '.', unless that '.' is its first character) is cut off and
\* '.' + extension is appended.
with_extension(p, ext) ==
    LET slash == LastIndexOf(p, "/")
        last  == SubSeq(p, slash + 1, Len(p))
        dot   == LastIndexOf(last, ".")
        stem  == IF dot <= 1 THEN last ELSE SubSeq(last, 1, dot - 1)
    IN  IF last = <<>> \/ last = <<".", ".">> THEN p
        ELSE SubSeq(p, 1, slash) \o stem
                \o (IF ext = <<>> THEN <<>> ELSE <<".">> \o ext)

\* Format::extension of the encoder module.
Formats == {"flac", "mp3"}
extension(format) ==
    IF format = "flac" THEN <<"f", "l", "a", "c">> ELSE <<"m", "p", "3">>

\* The structure download_track hands to get_file_name (line 136).
structure_used(opts) == ALBUM

\* The local file_name of download_track.
track_file_name(metadata, opts) == get_file_name(metadata, structure_used(opts))

\* The local path of download_track.
track_path(metadata, opts) ==
    with_extension(PathJoin(opts.destination, track_file_name(metadata, opts)),
                   extension(opts.format))

---------------------------------------------------------------------------
(* The tracks the metadata service knows. *)

TrackIds == {1, 2, 3}

\* Track::metadata of a track id (when the service answers).
MetadataOf(id) ==
    CASE id = 1 ->
           [artists |-> << <<"A">>, <<"B">> >>,
            album |-> [name |-> <<"L">>, num_discs |-> 1, cover |-> TRUE],
            disc_number |-> 1, number |-> 3, track_name |-> <<"T">>]
      [] id = 2 ->
           [artists |-> << <<"A">>, <<"B">>, <<"C">>, <<"D">> >>,
            album |-> [name |-> <<"M", ":">>, num_discs |-> 2, cover |-> TRUE],
            disc_number |-> 2, number |-> 12, track_name |-> <<"U", ".", "v">>]
      [] OTHER ->
           [artists |-> <<>>,
            album |-> [name |-> <<"N">>, num_discs |-> 0, cover |-> FALSE],
            disc_number |-> 1, number |-> 100, track_name |-> <<"W", "?">>]

\* options.destination of the runs modelled.
Destination == <<"/", "d">>

\* No symlink for a track id.
NoLink == <<>>

---------------------------------------------------------------------------
(* The state of a run. *)

Tasks == 1..Len(tracks)

\* SinkEvent
Chunks == {<<1>>, <<2>>}
WriteEvent(content) == [type |-> "Write", content |-> content]
FinishedEvent == [type |-> "Finished", content |-> <<>>]
\* recv() returned None: the channel is closed and empty.
NoEvent == [type |-> "None", content |-> <<>>]
SinkEvents == {WriteEvent(c) : c \in Chunks} \cup {FinishedEvent}

\* A download_track future that was started and has not returned.
Active(p) == p \in {"fetch", "art", "stream", "encode", "write"}

NActive == Cardinality({i \in Tasks : Active(pc[i])})

Running == [state |-> "Running", track |-> 0, err |-> "none"]
Ok == [state |-> "Ok", track |-> 0, err |-> "none"]
Failed(i, e) == [state |-> "Err", track |-> i, err |-> e]

\* The file the previous run, with the same options, wrote for a track id.
PriorPath(id, opts) == track_path(MetadataOf(id), opts)

\* What a run starts from: a batch, the options, and what earlier runs left
\* in the index and under the destination for the tracks of the batch.
InitWith(batches, events, cap, early_close, structures, formats) ==
    /\ namer = [call |-> "none", windows |-> FALSE]
    /\ tracks \in batches
    /\ options \in [destination : {Destination}, parallel : 1..MaxParallel,
                    format : formats, folder_structure : structures]
    /\ sink = [events |-> events, cap |-> cap, early_close |-> early_close]
    /\ \E linked \in SUBSET {tracks[k] : k \in 1..Len(tracks)} :
         links = [id \in TrackIds |->
                    IF id \in linked THEN PriorPath(id, options) ELSE NoLink]
    /\ files \in SUBSET {PriorPath(tracks[k], options) : k \in 1..Len(tracks)}
    /\ pc = [i \in Tasks |-> "pending"]
    /\ err = [i \in Tasks |-> "none"]
    /\ trace = [i \in Tasks |-> <<>>]
    /\ file_name = [i \in Tasks |-> <<>>]
    /\ path = [i \in Tasks |-> <<>>]
    /\ chan = [i \in Tasks |-> <<>>]
    /\ closed = [i \in Tasks |-> FALSE]
    /\ recvd = [i \in Tasks |-> <<>>]
    /\ samples = [i \in Tasks |-> <<>>]
    /\ result = Running

\* Batches of NTracks tracks over the ids 1 and 2 (a batch may name a track twice).
Batches == [1..NTracks -> {1, 2}]

\* The orchestrator: whole batches; the producer of a track sends Finished
\* and drops the channel only after that.
Init == InitWith(Batches, {FinishedEvent}, 1, FALSE, {ALBUM}, {"mp3"})

\* One track, with the channel and the options explored in full.
InitTrack ==
    InitWith({<<id>> : id \in TrackIds}, SinkEvents, MaxMsgs, TRUE, FolderStructure,
             Formats)

---------------------------------------------------------------------------
(* download_tracks: buffer_unordered and try_collect. *)

\* A slot too many: the bound is compared with <=.
SlotFree_off_by_one(active, parallel) == active <= parallel

\* buffer_unordered(n) takes the next track while fewer than n futures are
\* in progress.
SlotFree(active, parallel) == active < parallel

\* buffer_unordered fills its free slots before it polls the futures in
\* progress.
CanStart ==
    /\ result = Running
    /\ \E i \in Tasks : pc[i] = "pending"
    /\ SlotFree(NActive, options.parallel)

\* A future that is in progress can be polled.
Polled(i, at) ==
    /\ i \in Tasks
    /\ result = Running
    /\ ~CanStart
    /\ pc[i] = at

\* Errors looked at only when the batch is through, and only the last one.
try_collect_last_only(i, e, last) ==
    IF ~last THEN Running
    ELSE IF e # "none" THEN Failed(i, e)
    ELSE Ok

\* try_collect()?: the first Err ends the batch with that error; the batch
\* ends with Ok when the stream is exhausted (last: no other track is
\* pending or in progress).
try_collect(i, e, last) ==
    IF e # "none" THEN Failed(i, e)
    ELSE IF last THEN Ok
    ELSE Running

\* The future of track i returns: final is its last position, e its error.
\* When the batch ends with an error the stream is dropped, and with it the
\* futures in progress.
Return(i, final, e) ==
    LET last == \A j \in Tasks \ {i} : pc[j] \in {"Skip", "Done", "Fail"}
        res  == try_collect(i, e, last)
        dropped(j) == res.state = "Err" /\ j # i /\ Active(pc[j])
        gone(j) == j = i \/ dropped(j)
    IN  /\ result' = res
        /\ pc' = [j \in Tasks |->
                    IF j = i THEN final
                    ELSE IF dropped(j) THEN "Cancelled"
                    ELSE pc[j]]
        /\ err' = [err EXCEPT ![i] = e]
        /\ chan' = [j \in Tasks |-> IF gone(j) THEN <<>> ELSE chan[j]]
        /\ closed' = [j \in Tasks |-> IF gone(j) THEN FALSE ELSE closed[j]]
        /\ recvd' = [j \in Tasks |-> IF gone(j) THEN <<>> ELSE recvd[j]]
        /\ samples' = [j \in Tasks |-> IF gone(j) THEN <<>> ELSE samples[j]]

\* The operations a future has invoked so far, extended.
Did(i, ops) == trace' = [trace EXCEPT ![i] = @ \o ops]

---------------------------------------------------------------------------
(* download_track, one action per stretch of code between await points. *)

\* The existence test inverted.
CacheValid_inverted(dest, existing) == dest \notin existing

\* dest.exists() of the cache check.
CacheValid(dest, existing) == dest \in existing

\* The stale entry left in place.
remove_file_skipped(index, id) == index

\* fs::remove_file(link_path) of a stale entry.
remove_file(index, id) == [index EXCEPT ![id] = NoLink]

\* Lines 108-133: the future is created and polled for the first time: the
\* cache check, and on a miss the call of Track::metadata.
Start(i) ==
    /\ i \in Tasks
    /\ result = Running
    /\ pc[i] = "pending"
    /\ \A j \in 1..(i - 1) : pc[j] # "pending"
    /\ SlotFree(NActive, options.parallel)
    /\ LET id == tracks[i]
           dest == links[id]
       IN  IF dest # NoLink /\ CacheValid(dest, files)
           THEN /\ Return(i, "Skip", "none")
                /\ UNCHANGED <<links, trace>>
           ELSE IF dest # NoLink
           THEN \E removed \in BOOLEAN :
                  IF removed
                  THEN /\ links' = remove_file(links, id)
                       /\ Did(i, <<"remove_link", "metadata">>)
                       /\ pc' = [pc EXCEPT ![i] = "fetch"]
                       /\ UNCHANGED <<err, chan, closed, recvd, samples, result>>
                  ELSE /\ Return(i, "Fail", "IOError")
                       /\ Did(i, <<"remove_link_failed">>)
                       /\ UNCHANGED links
           ELSE /\ Did(i, <<"metadata">>)
                /\ pc' = [pc EXCEPT ![i] = "fetch"]
                /\ UNCHANGED <<links, err, chan, closed, recvd, samples, result>>
    /\ UNCHANGED <<namer, options, tracks, sink, files, file_name, path>>

\* Lines 133-159: the metadata arrived; the path is computed, the channel
\* and the Player are created, fetch_album_art is called.  Without a cover
\* reference fetch_album_art returns its error at once.
MetadataOk(i) ==
    /\ Polled(i, "fetch")
    /\ LET metadata == MetadataOf(tracks[i])
       IN  /\ file_name' = [file_name EXCEPT ![i] = track_file_name(metadata, options)]
           /\ path' = [path EXCEPT ![i] = track_path(metadata, options)]
           /\ Did(i, <<"player_new", "cover">>)
           /\ IF metadata.album.cover
              THEN /\ pc' = [pc EXCEPT ![i] = "art"]
                   /\ UNCHANGED <<err, chan, closed, recvd, samples, result>>
              ELSE Return(i, "Fail", "NoCoverArt")
    /\ UNCHANGED <<namer, options, tracks, sink, links, files>>

\* Line 133: Track::metadata failed.
MetadataErr(i) ==
    /\ Polled(i, "fetch")
    /\ Return(i, "Fail", "MetadataFetchError")
    /\ UNCHANGED <<namer, options, tracks, sink, links, files, trace, file_name, path>>

\* Lines 159-172: the cover arrived; the Player loads the track and the
\* future waits on the channel.
ArtOk(i) ==
    /\ Polled(i, "art")
    /\ Did(i, <<"load">>)
    /\ pc' = [pc EXCEPT ![i] = "stream"]
    /\ samples' = [samples EXCEPT ![i] = <<>>]
    /\ UNCHANGED <<namer, options, tracks, sink, links, files, err, file_name, path,
                   chan, closed, recvd, result>>

\* Line 159: get_image failed.
ArtErr(i) ==
    /\ Polled(i, "art")
    /\ Return(i, "Fail", "CoverArtFetchError")
    /\ UNCHANGED <<namer, options, tracks, sink, links, files, trace, file_name, path>>

\* The Player's sink sends a SinkEvent.
ProducerSend(i, event) ==
    /\ i \in Tasks
    /\ result = Running
    /\ pc[i] = "stream"
    /\ ~closed[i]
    /\ event \in sink.events
    /\ Len(chan[i]) + Len(recvd[i]) < sink.cap
    /\ chan' = [chan EXCEPT ![i] = Append(@, event)]
    /\ UNCHANGED <<namer, options, tracks, sink, links, files, pc, err, trace, file_name,
                   path, closed, recvd, samples, result>>

\* The sink is dropped: the channel closes.
ProducerClose(i) ==
    /\ i \in Tasks
    /\ result = Running
    /\ pc[i] = "stream"
    /\ ~closed[i]
    /\ sink.early_close \/ \E k \in 1..Len(chan[i]) : chan[i][k] = FinishedEvent
    /\ closed' = [closed EXCEPT ![i] = TRUE]
    /\ UNCHANGED <<namer, options, tracks, sink, links, files, pc, err, trace, file_name,
                   path, chan, recvd, samples, result>>

\* The buffer overwritten by each chunk.
append_overwrites(buffer, content) == content

\* samples.append(&mut content)
append(buffer, content) == buffer \o content

\* The while-let loop ends on Finished (break) and when recv() returns None.
loop_ends(event) == event.type \in {"Finished", "None"}

\* Lines 172-190: one recv() of the loop; when the loop ends, the samples
\* are handed to the encoder.
Recv(i) ==
    /\ Polled(i, "stream")
    /\ chan[i] # <<>> \/ closed[i]
    /\ LET event == IF chan[i] # <<>> THEN Head(chan[i]) ELSE NoEvent
       IN  /\ chan' = [chan EXCEPT ![i] = IF @ # <<>> THEN Tail(@) ELSE @]
           /\ recvd' = [recvd EXCEPT ![i] = Append(@, event)]
           /\ samples' = [samples EXCEPT ![i] =
                            IF event.type = "Write" THEN append(@, event.content) ELSE @]
           /\ IF loop_ends(event)
              THEN /\ pc' = [pc EXCEPT ![i] = "encode"]
                   /\ Did(i, <<IF event.type = "Finished" THEN "recv_finished"
                                                       ELSE "recv_none",
                               "encode">>)
                   /\ closed' = [closed EXCEPT ![i] = FALSE]
              ELSE UNCHANGED <<pc, trace, closed>>
    /\ UNCHANGED <<namer, options, tracks, sink, links, files, err, file_name, path, result>>

\* Line 190: encode returned; on success write_to_file is called.
Encode(i) ==
    /\ Polled(i, "encode")
    /\ \E ok \in BOOLEAN :
         IF ok
         THEN /\ pc' = [pc EXCEPT ![i] = "write"]
              /\ Did(i, <<"write">>)
              /\ samples' = [samples EXCEPT ![i] = <<>>]
              /\ recvd' = [recvd EXCEPT ![i] = <<>>]
              /\ chan' = [chan EXCEPT ![i] = <<>>]
              /\ UNCHANGED <<err, closed, result>>
         ELSE /\ Return(i, "Fail", "EncodingError")
              /\ Did(i, <<"encode_failed">>)
    /\ UNCHANGED <<namer, options, tracks, sink, links, files, file_name, path>>

\* The result of write_to_file ignored.
write_failed_ignored(ok) == FALSE

\* The ? of line 194: a failed write_to_file returns its error.
write_failed(ok) == ~ok

\* write_link: symlink(original, link) fails when the link path exists.
symlink(index, id, original) ==
    IF index[id] # NoLink
    THEN [ok |-> FALSE, index |-> index]
    ELSE [ok |-> TRUE, index |-> [index EXCEPT ![id] = original]]

\* Lines 194-199: write_to_file returned; on success write_link is called
\* and the future returns.  A failed write may leave a file behind.
Write(i) ==
    /\ Polled(i, "write")
    /\ \E ok \in BOOLEAN, left \in BOOLEAN :
         LET outcome == IF ok THEN <<>> ELSE <<"write_failed">>
         IN  /\ ok => left
             /\ files' = IF left THEN files \cup {path[i]} ELSE files
             /\ IF write_failed(ok)
                THEN /\ Return(i, "Fail", "WriteError")
                     /\ Did(i, outcome)
                     /\ UNCHANGED links
                ELSE LET made == symlink(links, tracks[i], path[i])
                     IN  /\ links' = made.index
                         /\ Did(i, outcome \o <<"link">>)
                         /\ IF made.ok
                            THEN Return(i, "Done", "none")
                            ELSE Return(i, "Fail", "AlreadyExists")
    /\ UNCHANGED <<namer, options, tracks, sink, file_name, path>>

Next ==
    \/ \E i \in Tasks : Start(i)
    \/ \E i \in Tasks : MetadataOk(i)
    \/ \E i \in Tasks : MetadataErr(i)
    \/ \E i \in Tasks : ArtOk(i)
    \/ \E i \in Tasks : ArtErr(i)
    \/ \E i \in Tasks, event \in SinkEvents : ProducerSend(i, event)
    \/ \E i \in Tasks : ProducerClose(i)
    \/ \E i \in Tasks : Recv(i)
    \/ \E i \in Tasks : Encode(i)
    \/ \E i \in Tasks : Write(i)

\* The orchestrator over whole batches.
Spec == Init /\ [][Next]_vars

\* One track, channel and options in full.
SpecTrack == InitTrack /\ [][Next]_vars

---------------------------------------------------------------------------
(* The naming functions on their own: one call of get_file_name or of     *)
(* clean_file_name, with inputs from bounded sets.                         *)

\* Artist names, album names and titles of the naming specification.
NamerNames == {<<"A">>, <<"B">>}
NamerAlbums == {<<"L">>, <<"M", ":">>}
NamerTitles == {<<"T">>, <<"U", ".", "v">>}

\* The characters of the strings handed to clean_file_name: the ten of
\* invalid_chars, a control character, a character outside ASCII, and
\* three that no rule removes.
NamerChars ==
    {"<", ">", ":", "'", "\"", "/", "\\", "|", "?", "*", "TAB", "E_ACUTE", "a", ".", " "}

\* Sequences over set of length at most n.
SeqsUpTo(set, n) == UNION {[1..k -> set] : k \in 0..n}

\* TrackMetadata values handed to get_file_name.
NamerMetadata ==
    [artists : SeqsUpTo(NamerNames, MaxArtists),
     album : [name : NamerAlbums, num_discs : 0..MaxDiscs, cover : {TRUE}],
     disc_number : {1, 2},
     number : {3, 12, 100},
     track_name : NamerTitles]

\* A call that was not made: the fields of namer it leaves unused.
NoMetadata ==
    [artists |-> <<>>, album |-> [name |-> <<>>, num_discs |-> 1, cover |-> TRUE],
     disc_number |-> 1, number |-> 0, track_name |-> <<>>]

\* A call of get_file_name(metadata, structure) about to be made.
GetFileNameCalls ==
    [call : {"get_file_name"}, windows : BOOLEAN, metadata : NamerMetadata,
     structure : FolderStructure, input : {<<>>}, done : {0},
     artists : {<<>>}, parts : {<<>>}, output : {<<>>}, again : {<<>>}]

\* A call of clean_file_name(input) about to be made.
CleanFileNameCalls ==
    [call : {"clean_file_name"}, windows : BOOLEAN, metadata : {NoMetadata},
     structure : {ALBUM}, input : SeqsUpTo(NamerChars, MaxStrLen), done : {0},
     artists : {<<>>}, parts : {<<>>}, output : {<<>>}, again : {<<>>}]

\* No batch is running; one naming call is about to be made.
NamerInit ==
    /\ namer \in GetFileNameCalls \cup CleanFileNameCalls
    /\ tracks = <<>>
    /\ options = [destination |-> Destination, parallel |-> 1, format |-> "mp3",
                  folder_structure |-> ALBUM]
    /\ sink = [events |-> {}, cap |-> 0, early_close |-> FALSE]
    /\ links = [id \in TrackIds |-> NoLink]
    /\ files = {}
    /\ pc = <<>>
    /\ err = <<>>
    /\ trace = <<>>
    /\ file_name = <<>>
    /\ path = <<>>
    /\ chan = <<>>
    /\ closed = <<>>
    /\ recvd = <<>>
    /\ samples = <<>>
    /\ result = Ok

\* get_file_name(metadata, structure) is called: the joined artists, the
\* segments before sanitization and the result are recorded.
CallGetFileName ==
    /\ namer.call = "get_file_name"
    /\ namer.done = 0
    /\ namer' = [namer EXCEPT
                   !.done = 1,
                   !.artists = artists_name(namer.metadata),
                   !.parts = name_parts(namer.metadata, namer.structure),
                   !.output = get_file_name(namer.metadata, namer.structure)]
    /\ UNCHANGED <<options, tracks, sink, links, files, pc, err, trace, file_name,
                   path, chan, closed, recvd, samples, result>>

\* clean_file_name(input) is called.
CallCleanFileName ==
    /\ namer.call = "clean_file_name"
    /\ namer.done = 0
    /\ namer' = [namer EXCEPT !.done = 1, !.output = clean_file_name(namer.input)]
    /\ UNCHANGED <<options, tracks, sink, links, files, pc, err, trace, file_name,
                   path, chan, closed, recvd, samples, result>>

\* clean_file_name is called on its own result.
CallCleanFileNameAgain ==
    /\ namer.call = "clean_file_name"
    /\ namer.done = 1
    /\ namer' = [namer EXCEPT !.done = 2, !.again = clean_file_name(namer.output)]
    /\ UNCHANGED <<options, tracks, sink, links, files, pc, err, trace, file_name,
                   path, chan, closed, recvd, samples, result>>

NamerNext ==
    \/ CallGetFileName
    \/ CallCleanFileName
    \/ CallCleanFileNameAgain

\* The naming functions over bounded inputs.
SpecNamer == NamerInit /\ [][NamerNext]_vars

---------------------------------------------------------------------------
(* Properties. *)

\* Operation op is among those the future of track i has invoked.
InTrace(i, op) == \E k \in 1..Len(trace[i]) : trace[i][k] = op

\* The future of track i finds a valid index entry when it starts.
HitAtStart(i) ==
    /\ pc[i] = "pending"
    /\ pc'[i] # "pending"
    /\ links[tracks[i]] # NoLink
    /\ links[tracks[i]] \in files

\* C1: a track that starts with an index entry whose target exists is
\* skipped with success, and neither then nor later does its future fetch
\* metadata, start a Player, encode, write or touch the index.
C1_CacheHitSkips ==
    [][\A i \in Tasks :
         /\ HitAtStart(i) =>
              /\ pc'[i] = "Skip"
              /\ err'[i] = "none"
              /\ trace'[i] = <<>>
              /\ links' = links
              /\ files' = files
         /\ pc[i] = "Skip" => pc'[i] = "Skip" /\ trace'[i] = <<>>]_vars

C1_Witness ==
    \E i \in Tasks :
        /\ pc[i] = "Skip"
        /\ links[tracks[i]] \in files
        /\ trace[i] = <<>>

\* The operations a future that reached write_link has invoked before it,
\* after the cache check (how the loop ended left open).
PipelineBeforeLink(t) ==
    /\ Len(t) = 8
    /\ SubSeq(t, 1, 4) = <<"metadata", "player_new", "cover", "load">>
    /\ t[5] \in {"recv_finished", "recv_none"}
    /\ SubSeq(t, 6, 8) = <<"encode", "write", "link">>

\* C2: write_link is invoked for a track only after its encode and its
\* write_to_file succeeded, and the file it links exists.
C2_CommitAfterWrite ==
    \A i \in Tasks :
        InTrace(i, "link") =>
            /\ ~InTrace(i, "encode_failed")
            /\ ~InTrace(i, "write_failed")
            /\ trace[i][Len(trace[i])] = "link"
            /\ trace[i][Len(trace[i]) - 1] = "write"
            /\ path[i] \in files

C2_Witness ==
    \E i \in Tasks :
        /\ pc[i] = "Done"
        /\ InTrace(i, "link")
        /\ links[tracks[i]] = path[i]

\* C3 (as claimed, for its example of a failed metadata fetch): when the
\* batch has reported the failure of a metadata fetch, every other track of
\* the batch has run to its end and is committed.
C3_SiblingsFinish ==
    (result.state = "Err" /\ result.err = "MetadataFetchError") =>
        \A j \in Tasks \ {result.track} : pc[j] \in {"Done", "Skip"}

\* C4: at most options.parallel futures are in progress.
C4_ConcurrencyBound == NActive <= options.parallel

C4_Witness ==
    /\ options.parallel = 2
    /\ NActive = 2
    /\ \E i \in Tasks : pc[i] = "pending"
    /\ \E i \in Tasks : pc[i] = "stream"
    /\ \E i \in Tasks : pc[i] = "encode"

\* C5: a future that found a stale entry removed it before anything else;
\* from then on the entry of its track is absent or valid; if the future
\* ends in success it went through the whole pipeline and the entry points
\* at the file it wrote; if it fails, the error is that of an operation
\* that failed.
C5_StaleRecovery ==
    \A i \in Tasks :
        /\ InTrace(i, "remove_link") =>
             /\ trace[i][1] = "remove_link"
             /\ \A k \in 2..Len(trace[i]) : trace[i][k] # "remove_link"
             /\ links[tracks[i]] = NoLink \/ links[tracks[i]] \in files
             /\ pc[i] # "Skip"
             /\ pc[i] = "Done" =>
                  /\ PipelineBeforeLink(Tail(trace[i]))
                  /\ links[tracks[i]] = path[i]
                  /\ path[i] \in files
             /\ pc[i] = "Fail" =>
                  err[i] \in {"MetadataFetchError", "NoCoverArt", "CoverArtFetchError",
                              "EncodingError", "WriteError", "AlreadyExists"}
        /\ InTrace(i, "remove_link_failed") =>
             /\ trace[i] = <<"remove_link_failed">>
             /\ pc[i] = "Fail"
             /\ err[i] = "IOError"

C5_Witness ==
    \E i \in Tasks :
        /\ pc[i] = "Done"
        /\ trace[i][1] = "remove_link"
        /\ links[tracks[i]] = path[i]
        /\ path[i] \in files

\* C6 (as claimed): a future whose recv() returned None, the channel having
\* closed without Finished, ends in failure without encode, write or commit.
C6_ClosureIsError ==
    \A i \in Tasks :
        InTrace(i, "recv_none") =>
            /\ pc[i] \in {"Fail", "Cancelled"}
            /\ ~InTrace(i, "encode")
            /\ ~InTrace(i, "write")
            /\ ~InTrace(i, "link")

\* C7: the batch has returned Ok exactly when every track ended in Done or
\* Skip, and an error exactly when a track failed; the error is the one of
\* that track, and no track failed before it.
C7_BatchResult ==
    /\ result.state = "Ok" <=> \A i \in Tasks : pc[i] \in {"Done", "Skip"}
    /\ result.state = "Err" <=> \E i \in Tasks : pc[i] = "Fail"
    /\ result.state = "Err" =>
         /\ result.track \in Tasks
         /\ pc[result.track] = "Fail"
         /\ result.err = err[result.track]
         /\ result.err # "none"
         /\ \A j \in Tasks : pc[j] = "Fail" => j = result.track
    /\ \A i \in Tasks : pc[i] = "Fail" <=> err[i] # "none"

C7_Witness ==
    /\ result.state = "Err"
    /\ \E j \in Tasks : pc[j] = "Done"
    /\ \E j \in Tasks : pc[j] = "Cancelled"

\* C8 (as claimed): of two futures for the same track id that both missed
\* the cache, neither fails because the entry exists.
C8_SameKeyRace ==
    \A i, j \in Tasks :
        (i # j /\ tracks[i] = tracks[j]
            /\ InTrace(i, "metadata") /\ InTrace(j, "metadata"))
        => err[i] # "AlreadyExists"

RECURSIVE ConcatWrites(_)
\* The contents of the Write events of a sequence of events, concatenated.
ConcatWrites(events) ==
    IF events = <<>> THEN <<>>
    ELSE (IF Head(events).type = "Write" THEN Head(events).content ELSE <<>>)
            \o ConcatWrites(Tail(events))

\* C9: while the loop runs and when the samples are handed to the encoder,
\* the buffer is the concatenation of the chunks received, in receipt order;
\* nothing is received after Finished, and what was sent after it stays in
\* the channel.
C9_BridgeOrdering ==
    \A i \in Tasks :
        pc[i] \in {"stream", "encode"} =>
            /\ samples[i] = ConcatWrites(recvd[i])
            /\ \A k \in 1..(Len(recvd[i]) - 1) : recvd[i][k].type = "Write"
            /\ pc[i] = "stream" => \A k \in 1..Len(recvd[i]) : recvd[i][k].type = "Write"
            /\ pc[i] = "encode" =>
                 /\ recvd[i] # <<>>
                 /\ recvd[i][Len(recvd[i])].type \in {"Finished", "None"}
                 /\ recvd[i][Len(recvd[i])].type = "None" => chan[i] = <<>>

C9_Witness ==
    \E i \in Tasks :
        /\ pc[i] = "encode"
        /\ recvd[i] = <<WriteEvent(<<1>>), WriteEvent(<<2>>), FinishedEvent>>
        /\ samples[i] = <<1, 2>>
        /\ chan[i] = <<WriteEvent(<<1>>)>>

\* C10 (as claimed): the relative path of a track is the one of the
\* folder structure of the options.
C10_StructureHonoured ==
    \A i \in Tasks :
        path[i] # <<>> =>
            file_name[i] = get_file_name(MetadataOf(tracks[i]), options.folder_structure)

\* C11 (as claimed): the output path is the sanitized relative path under
\* the destination, followed by '.' and the extension of the format; no
\* character of the relative path is lost.
C11_ExtensionIsSuffix ==
    \A i \in Tasks :
        path[i] # <<>> =>
            path[i] = PathJoin(options.destination, file_name[i])
                          \o <<".">> \o extension(options.format)

\* C12 (as claimed): a track without a cover reference does not fail for
\* the missing cover; when its future returns without another error it has
\* gone through stream, encode, write and commit.
C12_MissingCoverNotFatal ==
    \A i \in Tasks :
        ~MetadataOf(tracks[i]).album.cover =>
            /\ err[i] # "NoCoverArt"
            /\ (pc[i] = "Fail" /\ InTrace(i, "cover")) =>
                 err[i] \in {"EncodingError", "WriteError", "AlreadyExists"}

\* The stage an operation of the trace belongs to: 1 cache check,
\* 2 metadata fetch, 3 stream, 4 encode, 5 file write, 6 index commit.
StageOf(op) ==
    CASE op \in {"remove_link", "remove_link_failed"} -> 1
      [] op = "metadata" -> 2
      [] op \in {"player_new", "cover", "load", "recv_finished", "recv_none"} -> 3
      [] op \in {"encode", "encode_failed"} -> 4
      [] op \in {"write", "write_failed"} -> 5
      [] OTHER -> 6

\* The marks of a stage that did not finish successfully: a failed removal,
\* a channel closed before Finished, a failed encode, a failed write.
StageFailures == {"remove_link_failed", "recv_none", "encode_failed", "write_failed"}

\* C13 (as claimed): the operations of a track follow the order of the
\* stages, and nothing runs after a stage that did not finish successfully.
C13_StageOrder ==
    \A i \in Tasks :
        /\ \A k \in 1..(Len(trace[i]) - 1) :
             /\ StageOf(trace[i][k]) <= StageOf(trace[i][k + 1])
             /\ trace[i][k] \notin StageFailures
        /\ pc[i] = "Skip" => trace[i] = <<>>
        /\ pc[i] = "Done" => trace[i][Len(trace[i])] = "link"


\* C14: for the ALBUM structure the album segment before sanitization is
\* "{album} (Disc {disc_number})" exactly when the album has more than one
\* disc, and the album name unchanged otherwise, num_discs 0 and 1 included.
C14_AlbumSegment ==
    (namer.call = "get_file_name" /\ namer.done = 1 /\ namer.structure = ALBUM) =>
        LET metadata == namer.metadata
        IN  namer.parts[2] =
                IF metadata.album.num_discs > 1
                THEN metadata.album.name \o <<" ", "(", "D", "i", "s", "c", " ">>
                        \o Digits(metadata.disc_number) \o <<")">>
                ELSE metadata.album.name

\* The joined artists as the claim words them: up to 3 names, or the first 3
\* and "and others", separated by ", ".
JoinedArtists(a) ==
    LET sep == <<",", " ">>
    IN  CASE Len(a) = 0 -> <<>>
          [] Len(a) = 1 -> a[1]
          [] Len(a) = 2 -> a[1] \o sep \o a[2]
          [] Len(a) = 3 -> a[1] \o sep \o a[2] \o sep \o a[3]
          [] OTHER -> a[1] \o sep \o a[2] \o sep \o a[3] \o sep
                        \o <<"a", "n", "d", " ", "o", "t", "h", "e", "r", "s">>

\* C15: the joined artist string is all names in order separated by ", " for
\* 0 to 3 artists, and the first 3 names followed by "and others", all
\* joined by ", ", for more than 3.
C15_ArtistJoin ==
    (namer.call = "get_file_name" /\ namer.done = 1) =>
        namer.artists = JoinedArtists(namer.metadata.artists)

\* get_file_name was called for 4 artists and named 3 of them.
C15_Witness ==
    /\ namer.call = "get_file_name"
    /\ namer.done = 1
    /\ namer.metadata.artists = << <<"A">>, <<"B">>, <<"B">>, <<"A">> >>
    /\ namer.artists = <<"A", ",", " ", "B", ",", " ", "B", ",", " ",
                         "a", "n", "d", " ", "o", "t", "h", "e", "r", "s">>

\* s without the characters of set, the others in their order.
RECURSIVE Strip(_, _)
Strip(s, set) ==
    IF s = <<>> THEN <<>>
    ELSE IF Head(s) \in set THEN Strip(Tail(s), set)
    ELSE <<Head(s)>> \o Strip(Tail(s), set)

\* The characters the claim calls disallowed.
Disallowed == {"<", ">", ":", "'", "\"", "/", "\\", "|", "?", "*"} \cup ControlChars

\* The characters a build removes: on Windows those outside ASCII as well.
Removed == Disallowed \cup (IF namer.windows THEN NonAsciiChars ELSE {})

\* C16 as stated: clean_file_name returns the input with exactly the
\* disallowed characters removed, the others in order, and returns its own
\* output unchanged.
C16_SanitizationAsStated ==
    (namer.call = "clean_file_name" /\ namer.done >= 1) =>
        /\ namer.output = Strip(namer.input, Disallowed)
        /\ \A k \in 1..Len(namer.output) : namer.output[k] \notin Disallowed
        /\ namer.done = 2 => namer.again = namer.output

\* C16 amended: clean_file_name returns the input with exactly the
\* disallowed characters and, on a Windows build, the characters outside
\* ASCII removed, the others in order; the output contains none of them and
\* clean_file_name returns its own output unchanged.
C16_Sanitization ==
    (namer.call = "clean_file_name" /\ namer.done >= 1) =>
        /\ namer.output = Strip(namer.input, Removed)
        /\ \A k \in 1..Len(namer.output) : namer.output[k] \notin Removed
        /\ namer.done = 2 => namer.again = namer.output

\* A Windows build cleaned a string of a character outside ASCII, "/" and
\* "a" twice and kept "a".
C16_Witness ==
    /\ namer.call = "clean_file_name"
    /\ namer.windows
    /\ namer.done = 2
    /\ namer.input = <<"E_ACUTE", "/", "a">>
    /\ namer.output = <<"a">>
    /\ namer.again = <<"a">>


\* C17 (as claimed): once download_tracks has returned, every track whose
\* future was started has ended in Done, Skip or Fail.
C17_StartedTracksEnd ==
    result.state # "Running" =>
        \A i \in Tasks : pc[i] # "pending" => pc[i] \in {"Done", "Skip", "Fail"}

\* C18: once the future of a track has returned, unless it failed at the
\* cache check, the index entry of the track is absent or points to a file
\* that exists; after success it points to the file written; a stale entry
\* followed by a failed download is absent.
C18_NoStaleEntry ==
    \A i \in Tasks :
        (pc[i] \in {"Done", "Skip", "Fail"} /\ ~InTrace(i, "remove_link_failed")) =>
            /\ links[tracks[i]] = NoLink \/ links[tracks[i]] \in files
            /\ pc[i] = "Done" => links[tracks[i]] = path[i] /\ path[i] \in files
            /\ (pc[i] = "Fail" /\ InTrace(i, "remove_link")) => links[tracks[i]] = NoLink

\* A stale entry was removed, the write failed, and the entry is absent.
C18_Witness ==
    \E i \in Tasks :
        /\ pc[i] = "Fail"
        /\ err[i] = "WriteError"
        /\ trace[i][1] = "remove_link"
        /\ links[tracks[i]] = NoLink

\* C19: the step in which a future finds a valid index entry leaves the
\* index entry of every track and the set of output files as they were.
C19_SkipChangesNothing ==
    [][\A i \in Tasks :
         HitAtStart(i) =>
             /\ \A id \in TrackIds : links'[id] = links[id]
             /\ files' = files
             /\ links'[tracks[i]] \in files']_vars

\* A track was skipped while the entry of another track, not yet started,
\* is in the index.
C19_Witness ==
    \E i, j \in Tasks :
        /\ pc[i] = "Skip"
        /\ pc[j] = "pending"
        /\ tracks[j] # tracks[i]
        /\ links[tracks[j]] # NoLink
        /\ links[tracks[i]] \in files

====
